---- MODULE Spec2Model ----
(***************************************************************************)
(* State-machine model of scripts/sparse-parity-v1.py: the batch           *)
(* synthesizer get_batch and the training/evaluation loop of run.          *)
(*                                                                         *)
(* Python indices are kept 0-based in the values (task codes, bit          *)
(* positions, step numbers); TLA+ sequences are 1-based, so element i of a *)
(* Python list L is L[i + 1] here.                                         *)
(***************************************************************************)
EXTENDS Integers, Sequences, FiniteSets, TLC

VARIABLES
    cfg,        \* the configuration handed to run (lines 116-133)
    pc,         \* position of the run
    err,        \* the exception that ended the run, "none" while none
    layers,     \* the layer stack of mlp (lines 151-161)
    info,       \* ex.info, the run's output record
    Ss,         \* the subtask set (line 168)
    step,       \* loop variable of line 178
    loss,       \* local variable loss of run (bound at line 210)
    updates,    \* number of optimizer.step() calls applied to mlp
    samples,    \* last Zipfian draw (lines 181, 201)
    codes,      \* last list(hist.keys())
    sizes,      \* last [hist[c] for c in codes]
    batch       \* result of the last get_batch call

vars == <<cfg, pc, err, layers, info, Ss, step, loss, updates,
          samples, codes, sizes, batch>>

(***************************************************************************)
(* Bounds of the model.                                                    *)
(***************************************************************************)
MaxTasks == 2
MaxN == 2
MaxRows == 2
MaxBits == 6
MaxWidth == 2
MaxDepth == 3
MaxSteps == 2
MaxLogFreq == 2

\* A name that is not bound yet, and no get_batch result yet.
Unbound == [bound |-> FALSE]
NoBatch == [err |-> "nocall"]

Min(a, b) == IF a < b THEN a ELSE b

RECURSIVE SumSeq(_)
SumSeq(s) == IF s = <<>> THEN 0 ELSE Head(s) + SumSeq(Tail(s))

Range(s) == { s[i] : i \in DOMAIN s }

\* All sequences over S of length exactly len.
SeqsOfLen(S, len) == [1..len -> S]

\* Sequences over S without repeated elements, of length exactly len.
DistinctSeqs(S, len) ==
    { s \in SeqsOfLen(S, len) : \A i, j \in 1..len : i # j => s[i] # s[j] }

(***************************************************************************)
(* get_batch, lines 29-70.                                                 *)
(***************************************************************************)

\* torch.zeros((rows, cols)), lines 56 and 63.
Zeros(rows, cols) == [r \in 1..rows |-> [c \in 1..cols |-> 0]]

\* Line 62: y = torch.sum(x[:, S], dim=1) % 2 for one row x. S is the set of
\* the positions in the list S: random.sample (line 168) returns distinct
\* positions, and the sum does not depend on their order.
RECURSIVE SumAt(_, _)
SumAt(x, S) ==
    IF S = {} THEN 0
    ELSE LET p == CHOOSE q \in S : TRUE IN x[p + 1] + SumAt(x, S \ {p})

Parity(x, S) == SumAt(x, S) % 2

\* The one-hot row with code taken as a 1-based column: what lines 63-64
\* would give with the column off by one.
TaskCodeShifted(n_tasks, code) == [c \in 1..n_tasks |-> IF c = code THEN 1 ELSE 0]

\* Lines 63-64: one row of x_task_code, zeros with column `code` set to 1.
TaskCode(n_tasks, code) == [c \in 1..n_tasks |-> IF c = code + 1 THEN 1 ELSE 0]

\* Line 56-57: the number of rows allocated for batch_x and batch_y.
AllocRows(sizes_) == SumSeq(sizes_)

\* start_i left where it is: the loop of line 59 without line 69.
NextStartStuck(start_i, size) == start_i

\* Line 69: start_i += size.
NextStart(start_i, size) == start_i + size

\* Lines 67-68: batch[start_i:start_i+size] = rows.
SliceAssign(b, start_i, rows) ==
    [r \in 1..Len(b) |->
        IF r > start_i /\ r <= start_i + Len(rows) THEN rows[r - start_i] ELSE b[r]]

\* One iteration of the loop of line 59 for the j-th zipped triple; acc holds
\* batch_x, batch_y, start_i, the position in the random stream and the
\* exception raised so far. fills records each slice assignment of lines 67-68.
BatchPair(n_tasks, n, S, size, code, rnd, j, acc) ==
    IF acc.err # "none" \/ size <= 0 THEN acc
    ELSE IF code >= n_tasks
    THEN [acc EXCEPT !.err = "IndexError"]
    ELSE IF acc.start_i + size > Len(acc.x)
    THEN [acc EXCEPT !.err = "RuntimeError"]
    ELSE
      LET bits == [r \in 1..size |-> rnd[acc.used + r]]
          y    == [r \in 1..size |-> Parity(bits[r], S)]
          x    == [r \in 1..size |-> TaskCode(n_tasks, code) \o bits[r]]
      IN [acc EXCEPT !.x = SliceAssign(acc.x, acc.start_i, x),
                     !.y = SliceAssign(acc.y, acc.start_i, y),
                     !.fills = Append(acc.fills,
                                 [pair |-> j, from |-> acc.start_i + 1,
                                  to |-> acc.start_i + size]),
                     !.used = acc.used + size,
                     !.start_i = NextStart(acc.start_i, size)]

RECURSIVE BatchLoop(_, _, _, _, _, _, _, _)
BatchLoop(n_tasks, n, Ss_, codes_, sizes_, rnd, j, acc) ==
    IF j > Min(Len(Ss_), Min(Len(sizes_), Len(codes_))) THEN acc
    ELSE BatchLoop(n_tasks, n, Ss_, codes_, sizes_, rnd, j + 1,
                   BatchPair(n_tasks, n, Ss_[j], sizes_[j], codes_[j], rnd, j, acc))

\* get_batch(n_tasks, n, Ss, codes, sizes); rnd is the stream of rows that
\* torch.randint (line 61) returns, in the order they are drawn.
get_batch(n_tasks, n, Ss_, codes_, sizes_, rnd) ==
    BatchLoop(n_tasks, n, Ss_, codes_, sizes_, rnd, 1,
              [x |-> Zeros(AllocRows(sizes_), n_tasks + n),
               y |-> [r \in 1..AllocRows(sizes_) |-> 0],
               start_i |-> 0, used |-> 0, fills |-> <<>>, err |-> "none"])

\* The rows torch.randint can return for m rows of n bits.
BitRows(m, n) == [1..m -> [1..n -> {0, 1}]]

(***************************************************************************)
(* The sampler-to-synthesizer glue of run, lines 181-188 and 201-208.      *)
(***************************************************************************)

\* Lines 182-186: hist, codes = list(hist.keys()), sizes = [hist[c] ...].
\* Keys keep the order of first occurrence in samples.
RECURSIVE Keys(_)
Keys(s) ==
    IF s = <<>> THEN <<>>
    ELSE LET k == Keys(SubSeq(s, 1, Len(s) - 1))
         IN IF s[Len(s)] \in Range(k) THEN k ELSE Append(k, s[Len(s)])

Count(s, c) == Cardinality({ i \in DOMAIN s : s[i] = c })

Histogram(s) ==
    LET ks == Keys(s)
    IN [codes |-> ks, sizes |-> [i \in DOMAIN ks |-> Count(s, ks[i])]]

\* Lines 187 and 207: batch_Ss = [Ss[c] for c in codes]; IndexError when a
\* code is not an index of Ss.
BatchSsOk(Ss_, codes_) == \A i \in DOMAIN codes_ : codes_[i] + 1 \in DOMAIN Ss_
BatchSs(Ss_, codes_) == [i \in DOMAIN codes_ |-> Ss_[codes_[i] + 1]]

(***************************************************************************)
(* Subtask definition, line 168.                                           *)
(***************************************************************************)

\* random.sample(range(n), k) for each of the n_tasks tasks: k distinct
\* positions of 0..n-1, kept as the set of the positions. There is none when
\* k > n, where random.sample raises ValueError.
Sample(n, k) == { S \in SUBSET (0..(n - 1)) : Cardinality(S) = k }
SubtaskSets(n_tasks, n, k) == [1..n_tasks -> Sample(n, k)]

(***************************************************************************)
(* get_batch on its own: the inputs are drawn as run builds them (distinct *)
(* codes, one size per code, batch_Ss looked up in Ss), with sizes from 0. *)
(***************************************************************************)

BatchCfg(n_tasks, n, k) ==
    [n_tasks |-> n_tasks, n |-> n, k |-> k, width |-> 1, depth |-> 1,
     activation |-> "ReLU", steps |-> 0, log_freq |-> 1, test_points |-> 0,
     test_points_per_task |-> 0, batch_size |-> 0]

\* The (codes, sizes) requests: distinct codes, a code may be n_tasks (the
\* largest Zipfian rank), at most MaxRows rows and MaxBits random bits in
\* total.
Requests(n_tasks, n) ==
    { rq \in UNION { [codes : DistinctSeqs(0..n_tasks, l), sizes : SeqsOfLen(0..MaxRows, l)]
                     : l \in 0..(n_tasks + 1) } :
        SumSeq(rq.sizes) <= MaxRows /\ SumSeq(rq.sizes) * n <= MaxBits }

InitBatch ==
    /\ \E n_tasks \in 1..MaxTasks, n \in 1..MaxN :
         \E k \in 0..n :
            /\ cfg = BatchCfg(n_tasks, n, k)
            /\ Ss \in SubtaskSets(n_tasks, n, k)
    /\ pc = "request"
    /\ err = "none"
    /\ layers = <<>>
    /\ info = <<>>
    /\ step = 0
    /\ loss = Unbound
    /\ updates = 0
    /\ samples = <<>>
    /\ codes = <<>>
    /\ sizes = <<>>
    /\ batch = NoBatch

\* The caller chooses the composition of the batch.
Request ==
    /\ pc = "request"
    /\ \E rq \in Requests(cfg.n_tasks, cfg.n) :
         /\ codes' = rq.codes
         /\ sizes' = rq.sizes
    /\ pc' = "synthesize"
    /\ UNCHANGED <<cfg, err, layers, info, Ss, step, loss, updates, samples, batch>>

\* Lines 207-208: batch_Ss = [Ss[c] for c in codes], then get_batch.
Synthesize ==
    /\ pc = "synthesize"
    /\ IF ~BatchSsOk(Ss, codes)
       THEN /\ err' = "IndexError"
            /\ batch' = NoBatch
       ELSE \E rnd \in BitRows(SumSeq(sizes), cfg.n) :
              LET b == get_batch(cfg.n_tasks, cfg.n, BatchSs(Ss, codes), codes, sizes, rnd)
              IN /\ batch' = b
                 /\ err' = b.err
    /\ pc' = "returned"
    /\ UNCHANGED <<cfg, layers, info, Ss, step, loss, updates, samples, codes, sizes>>

NextBatch == Request \/ Synthesize

SpecBatch == InitBatch /\ [][NextBatch]_vars

\* A batch was returned by get_batch.
Returned == pc = "returned" /\ batch.err = "none"

\* The pair whose rows include row r when the rows are laid out pair after
\* pair in the order supplied.
Owner(sizes_, r) ==
    CHOOSE j \in DOMAIN sizes_ :
        /\ SumSeq(SubSeq(sizes_, 1, j - 1)) < r
        /\ r <= SumSeq(SubSeq(sizes_, 1, j))

\* XOR of the bits of x at the positions of S.
Xor(x, S) == Cardinality({ p \in S : x[p + 1] = 1 }) % 2

Flip(x, p) == [x EXCEPT ![p + 1] = 1 - @]

\* C6: in every batch get_batch returns, each row's task channel is one-hot
\* at the code of the pair the row belongs to, and its label is the XOR of
\* its bits at the positions Ss[code]: flipping a selected bit flips the
\* label, flipping another bit keeps it.
C6_OneHotAndLabel ==
    Returned =>
      \A r \in 1..Len(batch.x) :
        LET c    == codes[Owner(sizes, r)]
            row  == batch.x[r]
            bits == SubSeq(row, cfg.n_tasks + 1, cfg.n_tasks + cfg.n)
            S    == Ss[c + 1]
        IN /\ Len(row) = cfg.n_tasks + cfg.n
           /\ \A t \in 0..(cfg.n_tasks - 1) : row[t + 1] = (IF t = c THEN 1 ELSE 0)
           /\ batch.y[r] \in {0, 1}
           /\ batch.y[r] = Xor(bits, S)
           /\ \A p \in 0..(cfg.n - 1) :
                Parity(Flip(bits, p), S) =
                    (IF p \in S THEN 1 - batch.y[r] ELSE batch.y[r])

C6_Witness ==
    /\ Returned
    /\ Len(batch.x) >= 2
    /\ codes[Owner(sizes, 1)] # codes[Owner(sizes, 2)]
    /\ Cardinality(Ss[codes[Owner(sizes, 2)] + 1]) >= 2
    /\ batch.y[2] = 1

\* C7: get_batch returns as many rows, inputs and labels alike, as the sum
\* of the requested counts, zero counts and the empty batch included, and
\* the rows are filled pair by pair in the order supplied, each row by
\* exactly one pair with a positive count.
C7_RowConservation ==
    Returned =>
      /\ Len(batch.x) = SumSeq(sizes)
      /\ Len(batch.y) = SumSeq(sizes)
      /\ \A r \in 1..Len(batch.x) :
           Cardinality({ i \in DOMAIN batch.fills :
                           batch.fills[i].from <= r /\ r <= batch.fills[i].to }) = 1
      /\ \A i \in DOMAIN batch.fills :
           LET f == batch.fills[i]
           IN /\ sizes[f.pair] > 0
              /\ f.to - f.from + 1 = sizes[f.pair]
              /\ f.from = SumSeq(SubSeq(sizes, 1, f.pair - 1)) + 1
              /\ i > 1 => batch.fills[i - 1].pair < f.pair
      /\ \A j \in DOMAIN sizes :
           sizes[j] > 0 => \E i \in DOMAIN batch.fills : batch.fills[i].pair = j

C7_Witness ==
    /\ Returned
    /\ Len(sizes) = 2
    /\ sizes[1] > 0 /\ sizes[2] > 0
    /\ Len(batch.fills) = 2
    /\ Len(batch.x) = 2

(***************************************************************************)
(* run, lines 116-212.                                                     *)
(***************************************************************************)

\* Lines 141-148: the identifiers run has a branch for.
Activations == {"ReLU", "Tanh", "Sigmoid"}

Linear(in, out) == [type |-> "Linear", in |-> in, out |-> out]
Act(fn) == [type |-> "Activation", fn |-> fn]

\* Lines 153-160: the layers appended in iteration i of the loop of line 152.
LayerPiece(i, c) ==
    IF i = 0 THEN <<Linear(c.n_tasks + c.n, c.width), Act(c.activation)>>
    ELSE IF i = c.depth - 1 THEN <<Linear(c.width, 2)>>
    ELSE <<Linear(c.width, c.width), Act(c.activation)>>

\* Lines 151-161: layers after iterations 0..i-1.
RECURSIVE BuildLayers(_, _)
BuildLayers(i, c) ==
    IF i = 0 THEN <<>> ELSE BuildLayers(i - 1, c) \o LayerPiece(i - 1, c)

\* Line 165: sum(t.numel() for t in mlp.parameters()), weight and bias of
\* every Linear.
RECURSIVE NumParams(_)
NumParams(ls) ==
    IF ls = <<>> THEN 0
    ELSE (IF Head(ls).type = "Linear" THEN Head(ls).in * Head(ls).out + Head(ls).out
          ELSE 0) + NumParams(Tail(ls))

\* The number of columns of mlp(x): the out of the last Linear.
OutDim(ls) ==
    LET lin == { i \in DOMAIN ls : ls[i].type = "Linear" }
    IN ls[CHOOSE i \in lin : \A j \in lin : j <= i].out

\* nn.CrossEntropyLoss (lines 196, 210) raises when a label is no column of
\* the predictions.
LossFnOk(ls, y) == \A r \in DOMAIN y : y[r] < OutDim(ls)

\* What a metric is computed on: the batch (by the call that drew it) and the
\* parameters of mlp (by the number of updates they have received).
AggregateBatch(s) == [kind |-> "aggregate", step |-> s, task |-> -1]
SubtaskBatch(s, i) == [kind |-> "subtask", step |-> s, task |-> i]
TrainBatch(s) == [kind |-> "train", step |-> s, task |-> -1]

Accuracy(data, params) == [metric |-> "accuracy", data |-> data, params |-> params]
CrossEntropy(data, params) ==
    [bound |-> TRUE, metric |-> "loss", data |-> data, params |-> params]

\* defaultdict(list), lines 176-177: a missing key reads as the empty list.
DictGet(d, i) == IF i \in DOMAIN d THEN d[i] ELSE <<>>
DictAppend(d, i, v) ==
    [j \in DOMAIN d \cup {i} |-> IF j = i THEN Append(DictGet(d, i), v) ELSE d[j]]

\* scipy.stats.zipfian.rvs(alpha, n_tasks, size=m), lines 181 and 201: m ranks
\* of 1..n_tasks, every rank with positive probability.
ZipfianDraws(n_tasks, m) == [1..m -> 1..n_tasks]

\* The locals and ex.info that one iteration of the loop of line 178 reads and
\* writes.
Frame ==
    [info |-> info, loss |-> loss, updates |-> updates, err |-> "none",
     samples |-> samples, codes |-> codes, sizes |-> sizes, batch |-> batch]

\* Lines 181-192: the aggregate half of an evaluation event at step s.
EvalAggregate(st, s, smp, rnd) ==
    LET h  == Histogram(smp)
        s1 == [st EXCEPT !.samples = smp, !.codes = h.codes, !.sizes = h.sizes]
    IN IF ~BatchSsOk(Ss, h.codes)
       THEN [s1 EXCEPT !.err = "IndexError"]
       ELSE
         LET b  == get_batch(cfg.n_tasks, cfg.n, BatchSs(Ss, h.codes), h.codes, h.sizes, rnd)
             s2 == [s1 EXCEPT !.batch = b]
         IN IF b.err # "none" THEN [s2 EXCEPT !.err = b.err]
            ELSE IF cfg.test_points = 0 THEN [s2 EXCEPT !.err = "ZeroDivisionError"]
            ELSE
              LET s3 == [s2 EXCEPT !.info.accuracies =
                            Append(@, Accuracy(AggregateBatch(s), st.updates))]
              IN IF ~st.loss.bound
                 THEN [s3 EXCEPT !.err = "UnboundLocalError"]
                 ELSE [s3 EXCEPT !.info.losses = Append(@, st.loss)]

\* Lines 194-198: the probe of subtask i in an evaluation event at step s.
EvalSubtask(st, s, i, rnd) ==
    LET b  == get_batch(cfg.n_tasks, cfg.n, <<Ss[i + 1]>>, <<i>>,
                        <<cfg.test_points_per_task>>, rnd)
        s1 == [st EXCEPT !.batch = b]
    IN IF b.err # "none" THEN [s1 EXCEPT !.err = b.err]
       ELSE IF ~LossFnOk(layers, b.y) THEN [s1 EXCEPT !.err = "IndexError"]
       ELSE
         LET s2 == [s1 EXCEPT !.info.losses_subtasks =
                       DictAppend(@, i, CrossEntropy(SubtaskBatch(s, i), st.updates))]
         IN IF cfg.test_points_per_task = 0
            THEN [s2 EXCEPT !.err = "ZeroDivisionError"]
            ELSE [s2 EXCEPT !.info.accuracies_subtasks =
                     DictAppend(@, i, Accuracy(SubtaskBatch(s, i), st.updates))]

\* Line 193: for i in range(n_tasks), from task i on; probes[i + 1] are the
\* rows torch.randint returns for task i.
RECURSIVE EvalSubtasks(_, _, _, _)
EvalSubtasks(st, s, i, probes) ==
    IF i >= cfg.n_tasks \/ st.err # "none" THEN st
    ELSE EvalSubtasks(EvalSubtask(st, s, i, probes[i + 1]), s, i + 1, probes)

\* Lines 200-212: the training update of step s.
TrainUpdate(st, s, smp, rnd) ==
    LET h  == Histogram(smp)
        s1 == [st EXCEPT !.samples = smp, !.codes = h.codes, !.sizes = h.sizes]
    IN IF ~BatchSsOk(Ss, h.codes)
       THEN [s1 EXCEPT !.err = "IndexError"]
       ELSE
         LET b  == get_batch(cfg.n_tasks, cfg.n, BatchSs(Ss, h.codes), h.codes, h.sizes, rnd)
             s2 == [s1 EXCEPT !.batch = b]
         IN IF b.err # "none" THEN [s2 EXCEPT !.err = b.err]
            ELSE IF ~LossFnOk(layers, b.y) THEN [s2 EXCEPT !.err = "IndexError"]
            ELSE [s2 EXCEPT !.loss = CrossEntropy(TrainBatch(s), st.updates),
                            !.updates = st.updates + 1]

\* The frames one iteration of the loop can end in, over the random draws.
AfterTrain(st, s) ==
    IF st.err # "none" THEN {st}
    ELSE { TrainUpdate(st, s, smp, rnd) :
             smp \in ZipfianDraws(cfg.n_tasks, cfg.batch_size),
             rnd \in BitRows(cfg.batch_size, cfg.n) }

AfterSubtasks(st, s) ==
    IF st.err # "none" THEN {st}
    ELSE UNION { AfterTrain(EvalSubtasks(st, s, 0, probes), s) :
                   probes \in [1..cfg.n_tasks -> BitRows(cfg.test_points_per_task, cfg.n)] }

AfterEvaluation(st, s) ==
    UNION { AfterSubtasks(EvalAggregate(st, s, smp, rnd), s) :
              smp \in ZipfianDraws(cfg.n_tasks, cfg.test_points),
              rnd \in BitRows(cfg.test_points, cfg.n) }

\* Lines 179-212 at step s.
Iteration(st, s) ==
    IF cfg.log_freq = 0 THEN {[st EXCEPT !.err = "ZeroDivisionError"]}
    ELSE IF s % cfg.log_freq = 0 THEN AfterEvaluation(st, s)
    ELSE AfterTrain(st, s)

Configs ==
    [n_tasks : 1..MaxTasks, n : 1..MaxN, k : 0..(MaxN + 1), width : 1..MaxWidth,
     depth : 1..MaxDepth, activation : Activations \cup {"GELU"},
     steps : 0..MaxSteps, log_freq : 0..MaxLogFreq, test_points : 0..MaxRows,
     test_points_per_task : 0..1, batch_size : 1..MaxRows]

Init ==
    /\ cfg \in Configs
    /\ pc = "start"
    /\ err = "none"
    /\ layers = <<>>
    /\ info = <<>>
    /\ Ss = <<>>
    /\ step = 0
    /\ loss = Unbound
    /\ updates = 0
    /\ samples = <<>>
    /\ codes = <<>>
    /\ sizes = <<>>
    /\ batch = NoBatch

\* Lines 141-148.
SelectActivation ==
    /\ pc = "start"
    /\ IF cfg.activation \in Activations
       THEN pc' = "create_model" /\ err' = err
       ELSE pc' = "FAILED" /\ err' = "AssertionError"
    /\ UNCHANGED <<cfg, layers, info, Ss, step, loss, updates, samples, codes, sizes, batch>>

\* Lines 150-166: the model, then ex.info['P'] and ex.info['D'].
CreateModel ==
    /\ pc = "create_model"
    /\ layers' = BuildLayers(cfg.depth, cfg)
    /\ info' = info @@ ("P" :> NumParams(layers')) @@ ("D" :> cfg.steps * cfg.batch_size)
    /\ pc' = "subtasks"
    /\ UNCHANGED <<cfg, err, Ss, step, loss, updates, samples, codes, sizes, batch>>

\* Lines 168-169.
DefineSubtasks ==
    /\ pc = "subtasks"
    /\ IF SubtaskSets(cfg.n_tasks, cfg.n, cfg.k) = {}
       THEN /\ pc' = "FAILED"
            /\ err' = "ValueError"
            /\ UNCHANGED <<Ss, info>>
       ELSE /\ Ss' \in SubtaskSets(cfg.n_tasks, cfg.n, cfg.k)
            /\ info' = info @@ ("Ss" :> Ss')
            /\ pc' = "metrics"
            /\ err' = err
    /\ UNCHANGED <<cfg, layers, step, loss, updates, samples, codes, sizes, batch>>

\* Lines 171-177.
InitMetrics ==
    /\ pc = "metrics"
    /\ info' = info @@ [log_steps |-> <<>>, accuracies |-> <<>>, losses |-> <<>>,
                        losses_subtasks |-> <<>>, accuracies_subtasks |-> <<>>]
    /\ pc' = "RUNNING"
    /\ UNCHANGED <<cfg, err, layers, Ss, step, loss, updates, samples, codes, sizes, batch>>

\* Lines 178-212: one iteration of the loop, an exception ending the run.
Step ==
    /\ pc = "RUNNING"
    /\ step < cfg.steps
    /\ \E st \in Iteration(Frame, step) :
         /\ info' = st.info
         /\ loss' = st.loss
         /\ updates' = st.updates
         /\ samples' = st.samples
         /\ codes' = st.codes
         /\ sizes' = st.sizes
         /\ batch' = st.batch
         /\ err' = st.err
         /\ pc' = IF st.err = "none" THEN "RUNNING" ELSE "FAILED"
         /\ step' = IF st.err = "none" THEN step + 1 ELSE step
    /\ UNCHANGED <<cfg, layers, Ss>>

\* Line 178: range(steps) is exhausted and run returns.
Finish ==
    /\ pc = "RUNNING"
    /\ step = cfg.steps
    /\ pc' = "DONE"
    /\ UNCHANGED <<cfg, err, layers, info, Ss, step, loss, updates, samples, codes, sizes, batch>>

Next == SelectActivation \/ CreateModel \/ DefineSubtasks \/ InitMetrics \/ Step \/ Finish

Spec == Init /\ [][Next]_vars

(***************************************************************************)
(* Properties of run.                                                      *)
(***************************************************************************)

\* A configuration the specification accepts.
ValidConfig ==
    /\ cfg.activation \in Activations
    /\ cfg.k <= cfg.n
    /\ cfg.depth >= 1
    /\ cfg.steps >= 1
    /\ cfg.log_freq >= 1
    /\ cfg.test_points >= 1
    /\ cfg.test_points_per_task >= 1
    /\ cfg.batch_size >= 1

\* The metric series exist (line 177 has run).
MetricsExist == "accuracies_subtasks" \in DOMAIN info

\* The run is between two iterations of the loop, or has ended in it.
AtBoundary == MetricsExist /\ pc \in {"RUNNING", "DONE", "FAILED"}

\* The steps the loop has entered so far: a failed iteration does not advance
\* step.
Entered == IF pc = "FAILED" THEN step + 1 ELSE step

\* The steps below upto at which an evaluation event is triggered.
EvalSteps(upto) == { s \in 0..(upto - 1) : s % cfg.log_freq = 0 }

Ceil(a, b) == (a + b - 1) \div b

TaskIndices == 0..(cfg.n_tasks - 1)

\* C1: every step s entered with s % log_freq = 0, step 0 included, has run
\* an evaluation event to its end, recorded in every series with its step;
\* a run of steps = 1, log_freq = 1 ends DONE with exactly one event, of
\* step 0.
C1_Claim ==
    (AtBoundary /\ ValidConfig) =>
      LET ev == EvalSteps(Entered)
      IN /\ Len(info.accuracies) = Cardinality(ev)
         /\ Len(info.losses) = Cardinality(ev)
         /\ Range(info.log_steps) = ev
         /\ \A i \in TaskIndices :
              /\ Len(DictGet(info.accuracies_subtasks, i)) = Cardinality(ev)
              /\ Len(DictGet(info.losses_subtasks, i)) = Cardinality(ev)
         /\ (cfg.steps = 1 /\ cfg.log_freq = 1 /\ pc # "RUNNING") =>
              (pc = "DONE" /\ info.log_steps = <<0>>)

C3_Claim ==
    AtBoundary =>
      /\ Len(info.accuracies) = Len(info.log_steps)
      /\ Len(info.losses) = Len(info.log_steps)
      /\ \A i \in TaskIndices :
           /\ Len(DictGet(info.accuracies_subtasks, i)) = Len(info.log_steps)
           /\ Len(DictGet(info.losses_subtasks, i)) = Len(info.log_steps)

\* C4: the aggregate loss an evaluation event appends is the cross-entropy on
\* the aggregate batch of that event, the batch and parameters its aggregate
\* accuracy is computed on.
C4_Claim ==
    MetricsExist =>
      \A t \in 1..Len(info.accuracies) :
        /\ t <= Len(info.losses)
        /\ info.losses[t] =
             CrossEntropy(info.accuracies[t].data, info.accuracies[t].params)
        /\ info.accuracies[t].data.kind = "aggregate"

\* C5: every code handed to get_batch for a training or aggregate batch is
\* rank - 1 of a drawn rank, so it is a task index of 0..n_tasks-1 and the
\* lookup in Ss and the one-hot channel stay in range.
C5_Claim ==
    LET ranks == Keys(samples)
    IN /\ Len(codes) = Len(ranks)
       /\ \A i \in DOMAIN codes :
            /\ codes[i] = ranks[i] - 1
            /\ codes[i] \in TaskIndices
       /\ err # "IndexError"

\* C8: for every depth >= 1 the layer stack ends in a Linear with 2 outputs,
\* and for depth = 1 it is the single Linear from n_tasks + n inputs to 2.
C8_Claim ==
    layers # <<>> =>
      /\ layers[Len(layers)] \in { Linear(i, 2) : i \in 1..(MaxTasks + MaxN + MaxWidth) }
      /\ cfg.depth = 1 => layers = <<Linear(cfg.n_tasks + cfg.n, 2)>>

\* C9: a run with an unrecognized activation or with k > n fails before the
\* model is built and with nothing written to ex.info.
C9_Claim ==
    (pc = "FAILED" /\ (cfg.activation \notin Activations \/ cfg.k > cfg.n)) =>
      /\ layers = <<>>
      /\ DOMAIN info = {}
      /\ step = 0
      /\ updates = 0

\* C10: a run with a valid configuration never ends but in DONE, steps are
\* taken in increasing order with one update per step (steps updates at
\* DONE), and the evaluation of step s reads parameters with s updates.
C10_Claim ==
    ValidConfig =>
      /\ pc # "FAILED"
      /\ pc = "DONE" => (step = cfg.steps /\ updates = cfg.steps)
      /\ pc = "RUNNING" => updates = step
      /\ MetricsExist =>
           \A t \in 1..Len(info.accuracies) :
             info.accuracies[t].params = info.accuracies[t].data.step

====
